---------------------------- MODULE Spec2Model ----------------------------
(***************************************************************************)
(* A state-machine model of Voice_text.py: the StreamlitSpeechProcessor    *)
(* (selection, text_to_speech with _adjust_audio_speed, speech_to_text,    *)
(* display_waveform) and the Streamlit script main that drives it.         *)
(*                                                                         *)
(* Every served session runs the script with a processor of its own; the  *)
(* sessions share the wall clock, the output directory and the temporary   *)
(* directory.  The external libraries (gTTS, pydub/ffmpeg,                 *)
(* speech_recognition) are the environment: each call of one either        *)
(* succeeds or raises, chosen nondeterministically.                        *)
(***************************************************************************)
EXTENDS Integers, Sequences, FiniteSets, TLC

(***************************************************************************)
(* Bounds of the model.                                                    *)
(***************************************************************************)
\* The wall clock runs over the seconds 0 .. MaxClock.
MaxClock == 1

\* At most MaxTmp temporary files are ever created.
MaxTmp == 2

\* display_waveform's cap on the plotted points (10000 in the source), as a
\* parameter, and the bits of a decoded sample (16 for the engine's MP3s).
WaveCap == 3
SampleBits == 3

\* The sessions the framework serves.
Sessions == {1, 2}

\* Python's None, and the marker of a file that does not exist.
None == "None"
Absent == "absent"

(***************************************************************************)
(* __init__: the two tables and the initial selections.                    *)
(***************************************************************************)
LanguageTable ==
    [c \in {"en", "es", "fr", "de", "it", "ja", "zh-CN"} |->
        CASE c = "en" -> "English"
          [] c = "es" -> "Spanish"
          [] c = "fr" -> "French"
          [] c = "de" -> "German"
          [] c = "it" -> "Italian"
          [] c = "ja" -> "Japanese"
          [] c = "zh-CN" -> "Chinese"]

\* The multipliers in tenths (0.5, 1.0, 1.5, 2.0).
SpeedTable ==
    [t \in {"slow", "normal", "fast", "very_fast"} |->
        CASE t = "slow" -> 5
          [] t = "normal" -> 10
          [] t = "fast" -> 15
          [] t = "very_fast" -> 20]

InitialLanguage == "en"
InitialSpeed == "normal"
OutputDir == "speech_outputs"

\* Arguments the callers pass: members and non-members of the tables.
LangArgs == {"en", "fr", "xx"}
SpeedArgs == {"normal", "fast", "warp"}
Texts == {"", "hello"}
OutputNames == {"output.mp3"}

VARIABLES
    live,               \* the sessions being served
    clock,              \* time.time(), in whole seconds
    languages,          \* languages[s]: self.languages of s's processor
    voice_speeds,       \* voice_speeds[s]: self.voice_speeds
    current_language,   \* current_language[s]: self.current_language
    voice_speed,        \* voice_speed[s]: self.voice_speed
    lastSel,            \* lastSel[s]: the last selection call and what it returned
    pc,                 \* pc[s]: where s's processor call stands
    tts,                \* tts[s]: the locals and the outcome of s's text_to_speech call
    files,              \* the output directory: path -> content
    requests,           \* requests[p]: how many synthesis requests were given path p
    tempdir,            \* tempfile.gettempdir(), as the pieces of its text
    nextTmp,            \* the temporary names handed out so far
    tmpfiles,           \* the temporary files that exist: name -> content
    stt,                \* stt[s]: the locals and the outcome of s's speech_to_text call
    wave,               \* the display_waveform call: its samples and its chart
    mpc,                \* mpc[s]: where s's run of the script main stands
    ui                  \* ui[s]: the widgets' values in s's run

procvars == <<languages, voice_speeds, current_language, voice_speed, lastSel>>
ttsvars == <<pc, tts, files, requests>>
sttvars == <<tempdir, nextTmp, tmpfiles, stt>>
mainvars == <<mpc, ui>>
vars == <<live, clock, procvars, ttsvars, sttvars, wave, mainvars>>

(***************************************************************************)
(* Output files.  A path is the f-string of text_to_speech; a content is   *)
(* what the file holds: the engine's MP3, a re-timed MP3, or nothing       *)
(* (opened for writing and never written).                                 *)
(***************************************************************************)
FilePath(timestamp, output_filename) ==
    [dir |-> OutputDir, ts |-> timestamp, name |-> output_filename]

AllPaths == {FilePath(t, n) : t \in 0..MaxClock, n \in OutputNames}

\* None where a path is expected.
NoPath == [dir |-> None, ts |-> -1, name |-> None]

NoCall ==
    [path |-> NoPath, text |-> None, lang |-> None, ops |-> <<>>,
     pre |-> None, post |-> None, audio |-> None, factor |-> None,
     reported |-> {}, exc |-> None, ret |-> NoPath, state |-> "none"]

NoSel == [op |-> None, arg |-> None, ret |-> None, lang |-> None, speed |-> None]

\* An uploaded file: its name's extension and what its bytes are.
Uploads == [ext : {".wav", ".mp3"}, data : {"pcm", "mp3"}]

\* No file uploaded.
NoUpload == [ext |-> None, data |-> None]

\* The directories temporary files may be made in.
TmpDirs == {<<"tmp">>, <<"tmp", "in", ".mp3">>}

NoName == [dir |-> <<>>, id |-> -1, ext |-> None]

NoStt ==
    [upload |-> NoUpload, temp |-> NoName, created |-> {}, lang |-> None,
     exc |-> None, step |-> None, handler |-> None, ret |-> None,
     state |-> "none"]

NoWave == [state |-> "idle", samples |-> <<>>, x |-> <<>>, y |-> <<>>,
           normalized |-> FALSE, error |-> FALSE]

\* The widgets before the first run.
NoUi == [tts_language |-> None, voice_speed |-> None, text_input |-> None,
         stt_language |-> None, audio_file |-> NoUpload, button |-> None]

\* The state after __init__ (lines 16-39), apart from who is served.
InitProcessors ==
    /\ clock = 0
    /\ languages = [s \in Sessions |-> LanguageTable]
    /\ voice_speeds = [s \in Sessions |-> SpeedTable]
    /\ current_language = [s \in Sessions |-> InitialLanguage]
    /\ pc = [s \in Sessions |-> "idle"]
    /\ tts = [s \in Sessions |-> NoCall]
    /\ files = [p \in AllPaths |-> Absent]
    /\ requests = [p \in AllPaths |-> 0]
    /\ nextTmp = 0
    /\ tmpfiles = <<>>
    /\ stt = [s \in Sessions |-> NoStt]
    /\ wave = NoWave
    /\ mpc = [s \in Sessions |-> "idle"]
    /\ ui = [s \in Sessions |-> NoUi]

\* One session, its processor just constructed.
Init ==
    /\ live = {1}
    /\ tempdir = <<"tmp">>
    /\ InitProcessors
    /\ voice_speed = [s \in Sessions |-> InitialSpeed]
    /\ lastSel = [s \in Sessions |-> NoSel]

\* Two sessions served concurrently, each after its speed tier was selected.
SelectedSpeed(tier) ==
    IF tier = InitialSpeed
      THEN NoSel
      ELSE [op |-> "set_voice_speed", arg |-> tier, ret |-> TRUE,
            lang |-> InitialLanguage, speed |-> InitialSpeed]

InitConc ==
    /\ live = Sessions
    /\ tempdir = <<"tmp">>
    /\ InitProcessors
    /\ voice_speed \in [Sessions -> {"normal", "fast"}]
    /\ lastSel = [s \in Sessions |-> SelectedSpeed(voice_speed[s])]

\* The clock advances between any two steps.
Tick ==
    /\ clock < MaxClock
    /\ clock' = clock + 1
    /\ UNCHANGED <<mainvars, live, procvars, ttsvars, sttvars, wave>>

(***************************************************************************)
(* set_language and set_voice_speed.  lastSel records the call (its        *)
(* argument, the value returned, the selections before it).                *)
(***************************************************************************)
\* set_language without the membership test.
set_language_unchecked(s, language_code) ==
    /\ current_language' = [current_language EXCEPT ![s] = language_code]
    /\ lastSel' = [lastSel EXCEPT ![s] =
            [op |-> "set_language", arg |-> language_code,
             ret |-> language_code \in DOMAIN languages[s],
             lang |-> current_language[s], speed |-> voice_speed[s]]]
    /\ UNCHANGED <<languages, voice_speeds, voice_speed>>

\* set_language falling back to the initial language on an unknown code.
set_language_fallback(s, language_code) ==
    /\ current_language' = [current_language EXCEPT ![s] =
            IF language_code \in DOMAIN languages[s]
              THEN language_code ELSE InitialLanguage]
    /\ lastSel' = [lastSel EXCEPT ![s] =
            [op |-> "set_language", arg |-> language_code,
             ret |-> language_code \in DOMAIN languages[s],
             lang |-> current_language[s], speed |-> voice_speed[s]]]
    /\ UNCHANGED <<languages, voice_speeds, voice_speed>>

set_language(s, language_code) ==
    /\ IF language_code \in DOMAIN languages[s]
         THEN /\ current_language' = [current_language EXCEPT ![s] = language_code]
              /\ lastSel' = [lastSel EXCEPT ![s] =
                    [op |-> "set_language", arg |-> language_code, ret |-> TRUE,
                     lang |-> current_language[s], speed |-> voice_speed[s]]]
         ELSE /\ current_language' = current_language
              /\ lastSel' = [lastSel EXCEPT ![s] =
                    [op |-> "set_language", arg |-> language_code, ret |-> FALSE,
                     lang |-> current_language[s], speed |-> voice_speed[s]]]
    /\ UNCHANGED <<languages, voice_speeds, voice_speed>>

set_voice_speed(s, speed) ==
    /\ IF speed \in DOMAIN voice_speeds[s]
         THEN /\ voice_speed' = [voice_speed EXCEPT ![s] = speed]
              /\ lastSel' = [lastSel EXCEPT ![s] =
                    [op |-> "set_voice_speed", arg |-> speed, ret |-> TRUE,
                     lang |-> current_language[s], speed |-> voice_speed[s]]]
         ELSE /\ voice_speed' = voice_speed
              /\ lastSel' = [lastSel EXCEPT ![s] =
                    [op |-> "set_voice_speed", arg |-> speed, ret |-> FALSE,
                     lang |-> current_language[s], speed |-> voice_speed[s]]]
    /\ UNCHANGED <<languages, voice_speeds, current_language>>

\* A caller of the processor's API selects, with any argument.
CallSetLanguage(s) ==
    /\ s \in live
    /\ pc[s] = "idle"
    /\ \E code \in LangArgs : set_language(s, code)
    /\ UNCHANGED <<mainvars, live, clock, ttsvars, sttvars, wave>>

CallSetVoiceSpeed(s) ==
    /\ s \in live
    /\ pc[s] = "idle"
    /\ \E speed \in SpeedArgs : set_voice_speed(s, speed)
    /\ UNCHANGED <<mainvars, live, clock, ttsvars, sttvars, wave>>

(***************************************************************************)
(* text_to_speech.  A call is a sequence of steps; between two of them the *)
(* other sessions and the clock may move.                                  *)
(*   tts[s].ops       the operations the call has done on its file         *)
(*   tts[s].pre/post  the file's content when _adjust_audio_speed is       *)
(*                    entered and when it returns                          *)
(*   tts[s].reported  the st.error / st.info / st.success messages         *)
(***************************************************************************)
\* The codes gTTS itself accepts; every code of the table is one of them.
EngineLangs == DOMAIN LanguageTable

Report(s, msg) == tts[s].reported \cup {msg}

\* Lines 45-46: the timestamp and the path.
text_to_speech(s, text, output_filename) ==
    /\ pc[s] = "idle"
    /\ pc' = [pc EXCEPT ![s] = "tts_named"]
    /\ tts' = [tts EXCEPT ![s] =
            [NoCall EXCEPT !.path = FilePath(clock, output_filename),
                           !.text = text,
                           !.state = "running"]]
    /\ requests' = [requests EXCEPT ![FilePath(clock, output_filename)] =
            IF @ < 2 THEN @ + 1 ELSE @]
    /\ UNCHANGED files

\* The except clause of text_to_speech (lines 65-67).
TtsError(s, newfiles, op, exception) ==
    /\ pc' = [pc EXCEPT ![s] = "tts_returned"]
    /\ files' = newfiles
    /\ tts' = [tts EXCEPT ![s].reported = Report(s, "tts_error"),
                          ![s].ops = IF op = None THEN @ ELSE Append(@, op),
                          ![s].lang = current_language[s],
                          ![s].exc = exception,
                          ![s].ret = NoPath,
                          ![s].state = "returned"]

\* Lines 50-53: gTTS(...) raises on an empty text or a code it does not know.
TtsEngineReject(s) ==
    /\ pc[s] = "tts_named"
    /\ tts[s].text = "" \/ current_language[s] \notin EngineLangs
    /\ TtsError(s, files, None,
                IF tts[s].text = "" THEN "AssertionError" ELSE "ValueError")
    /\ UNCHANGED <<mainvars, live, clock, procvars, requests, sttvars, wave>>

\* Line 55: tts.save cannot open the file.
TtsOpenFail(s) ==
    /\ pc[s] = "tts_named"
    /\ tts[s].text # "" /\ current_language[s] \in EngineLangs
    /\ TtsError(s, files, None, "OSError")
    /\ UNCHANGED <<mainvars, live, clock, procvars, requests, sttvars, wave>>

\* Line 55: tts.save opens the file for writing and the synthesis request fails.
TtsSaveFail(s) ==
    /\ pc[s] = "tts_named"
    /\ tts[s].text # "" /\ current_language[s] \in EngineLangs
    /\ TtsError(s, [files EXCEPT ![tts[s].path] = "empty"], "open", "gTTSError")
    /\ UNCHANGED <<mainvars, live, clock, procvars, requests, sttvars, wave>>

\* Line 55: tts.save writes the engine's MP3.
TtsSaveOk(s) ==
    /\ pc[s] = "tts_named"
    /\ tts[s].text # "" /\ current_language[s] \in EngineLangs
    /\ pc' = [pc EXCEPT ![s] = "tts_saved"]
    /\ files' = [files EXCEPT ![tts[s].path] = "engine"]
    /\ tts' = [tts EXCEPT ![s].ops = Append(@, "save"),
                          ![s].lang = current_language[s]]
    /\ UNCHANGED <<mainvars, live, clock, procvars, requests, sttvars, wave>>

\* Line 58: the speed tier decides whether the file is adjusted.
NeedsAdjust_always(s) == TRUE

NeedsAdjust(s) == voice_speed[s] # "normal"

TtsSpeedCheck(s) ==
    /\ pc[s] = "tts_saved"
    /\ IF NeedsAdjust(s)
         THEN /\ pc' = [pc EXCEPT ![s] = "adj_decode"]
              /\ tts' = [tts EXCEPT ![s].pre = files[tts[s].path]]
         ELSE /\ pc' = [pc EXCEPT ![s] = "tts_finish"]
              /\ tts' = tts
    /\ UNCHANGED <<mainvars, live, clock, procvars, files, requests, sttvars, wave>>

\* Lines 85-86: _adjust_audio_speed reports the exception and returns.
AdjustError(s, op) ==
    /\ pc' = [pc EXCEPT ![s] = "tts_finish"]
    /\ tts' = [tts EXCEPT ![s].reported = Report(s, "adjust_error"),
                          ![s].ops = IF op = None THEN @ ELSE Append(@, op),
                          ![s].post = files'[tts[s].path]]

\* Line 72: AudioSegment.from_mp3 reads the file.
AdjDecodeOk(s) ==
    /\ pc[s] = "adj_decode"
    /\ files[tts[s].path] \notin {Absent, "empty"}
    /\ pc' = [pc EXCEPT ![s] = "adj_retime"]
    /\ tts' = [tts EXCEPT ![s].audio = files[tts[s].path],
                          ![s].ops = Append(@, "decode")]
    /\ UNCHANGED <<mainvars, live, clock, procvars, files, requests, sttvars, wave>>

AdjDecodeFail(s) ==
    /\ pc[s] = "adj_decode"
    /\ files' = files
    /\ AdjustError(s, "decode")
    /\ UNCHANGED <<mainvars, live, clock, procvars, requests, sttvars, wave>>

\* Lines 73-80: the frame rate is overridden and set back.
AdjRetimeOk(s) ==
    /\ pc[s] = "adj_retime"
    /\ pc' = [pc EXCEPT ![s] = "adj_export"]
    /\ tts' = [tts EXCEPT ![s].audio = "adjusted",
                          ![s].factor = voice_speeds[s][voice_speed[s]]]
    /\ UNCHANGED <<mainvars, live, clock, procvars, files, requests, sttvars, wave>>

AdjRetimeFail(s) ==
    /\ pc[s] = "adj_retime"
    /\ files' = files
    /\ AdjustError(s, None)
    /\ UNCHANGED <<mainvars, live, clock, procvars, requests, sttvars, wave>>

\* Line 83: export opens filepath with mode wb+, which empties the file, ...
AdjExportOpenOk(s) ==
    /\ pc[s] = "adj_export"
    /\ pc' = [pc EXCEPT ![s] = "adj_write"]
    /\ files' = [files EXCEPT ![tts[s].path] = "empty"]
    /\ tts' = [tts EXCEPT ![s].ops = Append(@, "truncate")]
    /\ UNCHANGED <<mainvars, live, clock, procvars, requests, sttvars, wave>>

AdjExportOpenFail(s) ==
    /\ pc[s] = "adj_export"
    /\ files' = files
    /\ AdjustError(s, None)
    /\ UNCHANGED <<mainvars, live, clock, procvars, requests, sttvars, wave>>

\* ... then encodes to a temporary file and copies the result into it.
AdjExportWriteOk(s) ==
    /\ pc[s] = "adj_write"
    /\ pc' = [pc EXCEPT ![s] = "tts_finish"]
    /\ files' = [files EXCEPT ![tts[s].path] = tts[s].audio]
    /\ tts' = [tts EXCEPT ![s].ops = Append(@, "export"),
                          ![s].reported = Report(s, "adjust_info"),
                          ![s].post = tts[s].audio]
    /\ UNCHANGED <<mainvars, live, clock, procvars, requests, sttvars, wave>>

AdjExportWriteFail(s) ==
    /\ pc[s] = "adj_write"
    /\ files' = files
    /\ AdjustError(s, None)
    /\ UNCHANGED <<mainvars, live, clock, procvars, requests, sttvars, wave>>

\* Lines 61-64: st.success and the path is returned.
TtsFinish(s) ==
    /\ pc[s] = "tts_finish"
    /\ pc' = [pc EXCEPT ![s] = "tts_returned"]
    /\ tts' = [tts EXCEPT ![s].reported = Report(s, "success"),
                          ![s].ret = tts[s].path,
                          ![s].state = "returned"]
    /\ UNCHANGED <<mainvars, live, clock, procvars, files, requests, sttvars, wave>>

\* The caller takes the value returned (line 225) and the call is over.
TtsReturn(s) ==
    /\ pc[s] = "tts_returned"
    /\ pc' = [pc EXCEPT ![s] = "idle"]
    /\ tts' = [tts EXCEPT ![s] = NoCall]
    /\ UNCHANGED <<mainvars, live, clock, procvars, files, requests, sttvars, wave>>

\* The steps of a call whose text is not empty.
TtsRun(s) ==
    \/ TtsOpenFail(s)
    \/ TtsSaveFail(s)
    \/ TtsSaveOk(s)
    \/ TtsSpeedCheck(s)
    \/ AdjDecodeOk(s)
    \/ AdjDecodeFail(s)
    \/ AdjRetimeOk(s)
    \/ AdjRetimeFail(s)
    \/ AdjExportOpenOk(s)
    \/ AdjExportOpenFail(s)
    \/ AdjExportWriteOk(s)
    \/ AdjExportWriteFail(s)
    \/ TtsFinish(s)
    \/ TtsReturn(s)

TtsStep(s) ==
    \/ TtsEngineReject(s)
    \/ TtsRun(s)

\* A caller of the processor's API requests a synthesis.
CallTextToSpeech(s) ==
    /\ s \in live
    /\ \E text \in Texts, name \in OutputNames : text_to_speech(s, text, name)
    /\ UNCHANGED <<mainvars, live, clock, procvars, sttvars, wave>>

(***************************************************************************)
(* speech_to_text.                                                         *)
(*   stt[s].temp     temp_filename                                         *)
(*   stt[s].created  the temporary files the call has created              *)
(*   stt[s].exc      the exception the call ended with, and the step that  *)
(*                   raised it; stt[s].handler is the except clause taken  *)
(***************************************************************************)
\* str.replace('.mp3', '.wav') on the whole path.  The random part of a
\* temporary name has no dot, so only the directory and the suffix can match.
ReplaceToken(tok) == IF tok = ".mp3" THEN ".wav" ELSE tok

ReplaceMp3(name) ==
    [dir |-> [i \in 1..Len(name.dir) |-> ReplaceToken(name.dir[i])],
     id |-> name.id,
     ext |-> ReplaceToken(name.ext)]

\* NamedTemporaryFile(delete=False, suffix='.wav'): a name no file has.
TempName == [dir |-> tempdir, id |-> nextTmp, ext |-> ".wav"]

WriteTmp(name, content) ==
    [n \in DOMAIN tmpfiles \cup {name} |->
        IF n = name THEN content ELSE tmpfiles[n]]

RemoveTmp(name) == [n \in DOMAIN tmpfiles \ {name} |-> tmpfiles[n]]

\* Lines 154-162: the except clause an exception is caught by.
ExceptRequestAsGeneric(exception) ==
    IF exception = "UnknownValueError" THEN "unknown_value" ELSE "generic"

ExceptClause(exception) ==
    CASE exception = "UnknownValueError" -> "unknown_value"
      [] exception = "RequestError" -> "request_error"
      [] OTHER -> "generic"

\* An exception ends the call: st.error, return None.
SttRaise(s, exception, step) ==
    /\ pc' = [pc EXCEPT ![s] = "stt_returned"]
    /\ stt' = [stt EXCEPT ![s].exc = exception,
                          ![s].step = step,
                          ![s].handler = ExceptClause(exception),
                          ![s].ret = None,
                          ![s].state = "returned"]

speech_to_text(s, audio_file) ==
    /\ pc[s] = "idle"
    /\ pc' = [pc EXCEPT ![s] = "stt_start"]
    /\ stt' = [stt EXCEPT ![s] = [NoStt EXCEPT !.upload = audio_file,
                                               !.state = "running"]]
    /\ UNCHANGED <<tempdir, nextTmp, tmpfiles>>

\* Line 124: the temporary file cannot be created.
SttTempFail(s) ==
    /\ pc[s] = "stt_start"
    /\ SttRaise(s, "OSError", "tempfile")
    /\ UNCHANGED <<mainvars, live, clock, procvars, tts, files, requests, tempdir, nextTmp, tmpfiles, wave>>

\* Line 124: the temporary file is created, empty.
SttTempCreate(s) ==
    /\ pc[s] = "stt_start"
    /\ nextTmp < MaxTmp
    /\ nextTmp' = nextTmp + 1
    /\ tmpfiles' = WriteTmp(TempName, "empty")
    /\ pc' = [pc EXCEPT ![s] = "stt_write"]
    /\ stt' = [stt EXCEPT ![s].temp = TempName,
                          ![s].created = @ \cup {TempName}]
    /\ UNCHANGED <<mainvars, live, clock, procvars, tts, files, requests, tempdir, wave>>

\* Lines 125-126: the upload is written to it.
SttTempWriteOk(s) ==
    /\ pc[s] = "stt_write"
    /\ tmpfiles' = WriteTmp(stt[s].temp, stt[s].upload.data)
    /\ pc' = [pc EXCEPT ![s] = "stt_format"]
    /\ UNCHANGED <<mainvars, live, clock, procvars, tts, files, requests, tempdir, nextTmp, stt, wave>>

SttTempWriteFail(s) ==
    /\ pc[s] = "stt_write"
    /\ SttRaise(s, "OSError", "tempfile")
    /\ UNCHANGED <<mainvars, live, clock, procvars, tts, files, requests, tempdir, nextTmp, tmpfiles, wave>>

\* Line 131: a name that does not end in .mp3 is not transcoded.
SttNoTranscode(s) ==
    /\ pc[s] = "stt_format"
    /\ stt[s].upload.ext # ".mp3"
    /\ pc' = [pc EXCEPT ![s] = "stt_read"]
    /\ UNCHANGED <<mainvars, live, clock, procvars, tts, files, requests, sttvars, wave>>

\* Line 132: from_mp3 cannot decode the temporary file.
SttDecodeFail(s) ==
    /\ pc[s] = "stt_format"
    /\ stt[s].upload.ext = ".mp3"
    /\ SttRaise(s, "CouldntDecodeError", "transcode")
    /\ UNCHANGED <<mainvars, live, clock, procvars, tts, files, requests, tempdir, nextTmp, tmpfiles, wave>>

\* Lines 132-133: from_mp3 decodes it; wav_filename is computed.
SttDecodeOk(s) ==
    /\ pc[s] = "stt_format"
    /\ stt[s].upload.ext = ".mp3"
    /\ tmpfiles[stt[s].temp] = "mp3"
    /\ pc' = [pc EXCEPT ![s] = "stt_export"]
    /\ UNCHANGED <<mainvars, live, clock, procvars, tts, files, requests, sttvars, wave>>

\* Lines 134-135: export writes the WAV to wav_filename.
SttExportOk(s) ==
    /\ pc[s] = "stt_export"
    /\ tmpfiles' = WriteTmp(ReplaceMp3(stt[s].temp), "pcm")
    /\ pc' = [pc EXCEPT ![s] = "stt_read"]
    /\ stt' = [stt EXCEPT ![s].temp = ReplaceMp3(stt[s].temp),
                          ![s].created = @ \cup {ReplaceMp3(stt[s].temp)}]
    /\ UNCHANGED <<mainvars, live, clock, procvars, tts, files, requests, tempdir, nextTmp, wave>>

\* Line 134: export cannot open wav_filename.
SttExportFail(s) ==
    /\ pc[s] = "stt_export"
    /\ SttRaise(s, "OSError", "transcode")
    /\ UNCHANGED <<mainvars, live, clock, procvars, tts, files, requests, tempdir, nextTmp, tmpfiles, wave>>

\* Lines 138-139: the file is read as PCM audio.
SttReadOk(s) ==
    /\ pc[s] = "stt_read"
    /\ tmpfiles[stt[s].temp] = "pcm"
    /\ pc' = [pc EXCEPT ![s] = "stt_recognize"]
    /\ UNCHANGED <<mainvars, live, clock, procvars, tts, files, requests, sttvars, wave>>

\* Line 138: sr.AudioFile does not recognise the container.
SttReadFail(s) ==
    /\ pc[s] = "stt_read"
    /\ tmpfiles[stt[s].temp] # "pcm"
    /\ SttRaise(s, "ValueError", "read")
    /\ UNCHANGED <<mainvars, live, clock, procvars, tts, files, requests, tempdir, nextTmp, tmpfiles, wave>>

\* Lines 143-146: recognize_google with the current language.
SttRecognizeOk(s) ==
    /\ pc[s] = "stt_recognize"
    /\ pc' = [pc EXCEPT ![s] = "stt_cleanup"]
    /\ stt' = [stt EXCEPT ![s].lang = current_language[s]]
    /\ UNCHANGED <<mainvars, live, clock, procvars, tts, files, requests, tempdir, nextTmp, tmpfiles, wave>>

SttRecognizeFail(s) ==
    /\ pc[s] = "stt_recognize"
    /\ \E exception \in {"UnknownValueError", "RequestError"} :
          /\ pc' = [pc EXCEPT ![s] = "stt_returned"]
          /\ stt' = [stt EXCEPT ![s].lang = current_language[s],
                                ![s].exc = exception,
                                ![s].step = "recognize",
                                ![s].handler = ExceptClause(exception),
                                ![s].ret = None,
                                ![s].state = "returned"]
    /\ UNCHANGED <<mainvars, live, clock, procvars, tts, files, requests, tempdir, nextTmp, tmpfiles, wave>>

\* Lines 149-152: os.remove(temp_filename), then the transcription is returned.
SttCleanup(s) ==
    /\ pc[s] = "stt_cleanup"
    /\ tmpfiles' = RemoveTmp(stt[s].temp)
    /\ pc' = [pc EXCEPT ![s] = "stt_returned"]
    /\ stt' = [stt EXCEPT ![s].ret = "hello world",
                          ![s].state = "returned"]
    /\ UNCHANGED <<mainvars, live, clock, procvars, tts, files, requests, tempdir, nextTmp, wave>>

\* Line 149: os.remove raises; the file stays.
SttRemoveFail(s) ==
    /\ pc[s] = "stt_cleanup"
    /\ SttRaise(s, "OSError", "remove")
    /\ UNCHANGED <<mainvars, live, clock, procvars, tts, files, requests, tempdir, nextTmp, tmpfiles, wave>>

\* The caller takes the value returned (line 268) and the call is over.
SttReturn(s) ==
    /\ pc[s] = "stt_returned"
    /\ pc' = [pc EXCEPT ![s] = "idle"]
    /\ stt' = [stt EXCEPT ![s] = NoStt]
    /\ UNCHANGED <<mainvars, live, clock, procvars, tts, files, requests, tempdir, nextTmp, tmpfiles, wave>>

SttStep(s) ==
    \/ SttTempFail(s)
    \/ SttTempCreate(s)
    \/ SttTempWriteOk(s)
    \/ SttTempWriteFail(s)
    \/ SttNoTranscode(s)
    \/ SttDecodeFail(s)
    \/ SttDecodeOk(s)
    \/ SttExportOk(s)
    \/ SttExportFail(s)
    \/ SttReadOk(s)
    \/ SttReadFail(s)
    \/ SttRecognizeOk(s)
    \/ SttRecognizeFail(s)
    \/ SttCleanup(s)
    \/ SttRemoveFail(s)
    \/ SttReturn(s)

\* A caller of the processor's API requests a transcription.
CallSpeechToText(s) ==
    /\ s \in live
    /\ \E audio_file \in Uploads : speech_to_text(s, audio_file)
    /\ UNCHANGED <<mainvars, live, clock, procvars, tts, files, requests, wave>>

(***************************************************************************)
(* display_waveform.  Samples are SampleBits-bit two's-complement integers  *)
(* (the dtype numpy gives the array of samples), and numpy's arithmetic on  *)
(* them stays in that width.  A plotted amplitude is the fraction num/den.  *)
(***************************************************************************)
SampleMin == -(2 ^ (SampleBits - 1))
SampleMax == 2 ^ (SampleBits - 1) - 1

\* The sample sequences the model decodes: up to MaxLen samples.
SampleVals == {SampleMin, 0, SampleMax}
MaxLen == 2 * WaveCap + 1
SampleSeqs == UNION {[1..n -> SampleVals] : n \in 0..MaxLen}

Min2(a, b) == IF a < b THEN a ELSE b

\* A value brought back into the sample width.
Wrap(x) == ((x - SampleMin) % (2 ^ SampleBits)) + SampleMin

\* np.abs on the integer array: the result has the array's dtype.
NpAbs(x) == Wrap(IF x < 0 THEN -x ELSE x)

\* np.max of a non-empty array.
NpMax(arr) == CHOOSE m \in {arr[i] : i \in 1..Len(arr)} :
                  \A i \in 1..Len(arr) : arr[i] <= m

PeakOf(arr) == NpMax([i \in 1..Len(arr) |-> NpAbs(arr[i])])

\* Line 96: divide by the peak if it is positive, else keep the array.
Normalize(arr) ==
    IF PeakOf(arr) > 0
      THEN [i \in 1..Len(arr) |-> [num |-> arr[i], den |-> PeakOf(arr)]]
      ELSE [i \in 1..Len(arr) |-> [num |-> arr[i], den |-> 1]]

\* Line 99: np.linspace(0, duration, num=min(cap, len)); point i of n stands
\* for (i-1)/(n-1) of the duration.
TimeAxis(len) ==
    [i \in 1..Min2(WaveCap, len) |-> [k |-> i - 1, of |-> Min2(WaveCap, len) - 1]]

\* arr[::factor]
Stride(arr, factor) ==
    [j \in 1..((Len(arr) + factor - 1) \div factor) |-> arr[(j - 1) * factor + 1]]

\* seq[:n]
Take(seq, n) == SubSeq(seq, 1, Min2(n, Len(seq)))

\* Lines 102-104 without the final [:cap].
Downsample_unsliced(arr) ==
    IF Len(arr) > WaveCap
      THEN Stride(arr, Len(arr) \div WaveCap)
      ELSE arr

\* Lines 102-104.
Downsample(arr) ==
    IF Len(arr) > WaveCap
      THEN Take(Stride(arr, Len(arr) \div WaveCap), WaveCap)
      ELSE arr

display_waveform(samples) ==
    /\ wave.state = "idle"
    /\ wave' = [NoWave EXCEPT !.state = "called", !.samples = samples]

\* Lines 92-115; np.max raises on an empty array and ax.plot on x and y of
\* different lengths, and the except clause reports the error (lines 116-118).
WaveRender ==
    /\ wave.state = "called"
    /\ LET arr == wave.samples
           y == Downsample(Normalize(arr))
           x == Take(TimeAxis(Len(arr)), Len(y))
       IN  IF Len(arr) = 0 \/ Len(x) # Len(y)
             THEN wave' = [wave EXCEPT !.state = "done", !.error = TRUE]
             ELSE wave' = [wave EXCEPT !.state = "done",
                                       !.x = x,
                                       !.y = y,
                                       !.normalized = PeakOf(arr) > 0]
    /\ UNCHANGED <<mainvars, live, clock, procvars, ttsvars, sttvars>>

\* The caller takes the figure (line 229).
WaveReturn ==
    /\ wave.state = "done"
    /\ wave' = NoWave
    /\ UNCHANGED <<mainvars, live, clock, procvars, ttsvars, sttvars>>

CallDisplayWaveform ==
    /\ wave.state = "idle"
    /\ \E samples \in SampleSeqs : display_waveform(samples)
    /\ UNCHANGED <<mainvars, live, clock, procvars, ttsvars, sttvars>>

(***************************************************************************)
(* main: one run of the script, top to bottom.  A run starts when the user *)
(* touches a widget; the widgets then hold what the user chose, and at     *)
(* most one of the two buttons is pressed.                                 *)
(***************************************************************************)
\* What the selectboxes, the slider, the text area and the uploader offer.
LangChoices == {"en", "fr", "ja"}
SpeedChoices == {"normal", "fast"}
FileChoices ==
    {NoUpload, [ext |-> ".wav", data |-> "pcm"], [ext |-> ".mp3", data |-> "mp3"],
     [ext |-> ".wav", data |-> "mp3"]}

\* The widgets of a run: every pair of languages, with the inputs of the
\* panel whose button is pressed; the other panel's inputs are left empty.
WidgetValues ==
    [tts_language : LangChoices, voice_speed : SpeedChoices, text_input : Texts,
     stt_language : LangChoices, audio_file : {NoUpload},
     button : {"generate_speech"}]
    \cup
    [tts_language : LangChoices, voice_speed : {InitialSpeed}, text_input : {""},
     stt_language : LangChoices, audio_file : FileChoices,
     button : {"transcribe_audio"}]
    \cup
    [tts_language : LangChoices, voice_speed : {InitialSpeed}, text_input : {""},
     stt_language : LangChoices, audio_file : {NoUpload},
     button : {None}]

Goto(s, label) == mpc' = [mpc EXCEPT ![s] = label]

\* Line 192: a new processor for the run.
MainStart(s) ==
    /\ s \in live
    /\ mpc[s] = "idle" /\ pc[s] = "idle"
    /\ ui' \in {[ui EXCEPT ![s] = w] : w \in WidgetValues}
    /\ languages' = [languages EXCEPT ![s] = LanguageTable]
    /\ voice_speeds' = [voice_speeds EXCEPT ![s] = SpeedTable]
    /\ current_language' = [current_language EXCEPT ![s] = InitialLanguage]
    /\ voice_speed' = [voice_speed EXCEPT ![s] = InitialSpeed]
    /\ lastSel' = [lastSel EXCEPT ![s] = NoSel]
    /\ Goto(s, "tab1_language")
    /\ UNCHANGED <<live, clock, ttsvars, sttvars, wave>>

\* Line 258 left out: the second panel's selection is not applied.
MainTab2Language_skipped(s) ==
    /\ mpc[s] = "tab2_language"
    /\ Goto(s, "tab2_button")
    /\ UNCHANGED <<ui, live, clock, procvars, ttsvars, sttvars, wave>>

\* Lines 201-206: the first panel's language.
MainTab1Language(s) ==
    /\ mpc[s] = "tab1_language"
    /\ set_language(s, ui[s].tts_language)
    /\ Goto(s, "tab1_speed")
    /\ UNCHANGED <<ui, live, clock, ttsvars, sttvars, wave>>

\* Lines 209-214: the voice speed.
MainTab1Speed(s) ==
    /\ mpc[s] = "tab1_speed"
    /\ set_voice_speed(s, ui[s].voice_speed)
    /\ Goto(s, "tab1_button")
    /\ UNCHANGED <<ui, live, clock, ttsvars, sttvars, wave>>

\* Lines 220-225: Generate Speech with a text calls text_to_speech.
MainGenerate(s) ==
    /\ mpc[s] = "tab1_button"
    /\ ui[s].button = "generate_speech" /\ ui[s].text_input # ""
    /\ text_to_speech(s, ui[s].text_input, "output.mp3")
    /\ Goto(s, "tab1_wait")
    /\ UNCHANGED <<ui, live, clock, procvars, sttvars, wave>>

\* Lines 220, 245-246: no button, or no text.
MainNoGenerate(s) ==
    /\ mpc[s] = "tab1_button"
    /\ ~(ui[s].button = "generate_speech" /\ ui[s].text_input # "")
    /\ Goto(s, "tab2_language")
    /\ UNCHANGED <<ui, live, clock, procvars, ttsvars, sttvars, wave>>

\* Lines 227-244: the result is shown.
MainGenerated(s) ==
    /\ mpc[s] = "tab1_wait" /\ pc[s] = "idle"
    /\ Goto(s, "tab2_language")
    /\ UNCHANGED <<ui, live, clock, procvars, ttsvars, sttvars, wave>>

\* Lines 252-258: the second panel's language.
MainTab2Language(s) ==
    /\ mpc[s] = "tab2_language"
    /\ set_language(s, ui[s].stt_language)
    /\ Goto(s, "tab2_button")
    /\ UNCHANGED <<ui, live, clock, ttsvars, sttvars, wave>>

\* Lines 263-268: Transcribe with an uploaded file calls speech_to_text.
MainTranscribe(s) ==
    /\ mpc[s] = "tab2_button"
    /\ ui[s].audio_file # NoUpload /\ ui[s].button = "transcribe_audio"
    /\ speech_to_text(s, ui[s].audio_file)
    /\ Goto(s, "tab2_wait")
    /\ UNCHANGED <<ui, live, clock, procvars, tts, files, requests, wave>>

MainNoTranscribe(s) ==
    /\ mpc[s] = "tab2_button"
    /\ ~(ui[s].audio_file # NoUpload /\ ui[s].button = "transcribe_audio")
    /\ Goto(s, "idle")
    /\ UNCHANGED <<ui, live, clock, procvars, ttsvars, sttvars, wave>>

\* Lines 270-281: the transcription is shown and the run ends.
MainTranscribed(s) ==
    /\ mpc[s] = "tab2_wait" /\ pc[s] = "idle"
    /\ Goto(s, "idle")
    /\ UNCHANGED <<ui, live, clock, procvars, ttsvars, sttvars, wave>>

MainStep(s) ==
    \/ MainStart(s)
    \/ MainTab1Language(s)
    \/ MainTab1Speed(s)
    \/ MainGenerate(s)
    \/ MainNoGenerate(s)
    \/ MainGenerated(s)
    \/ MainTab2Language(s)
    \/ MainTranscribe(s)
    \/ MainNoTranscribe(s)
    \/ MainTranscribed(s)

Next ==
    \/ Tick
    \/ \E s \in Sessions : CallSetLanguage(s)
    \/ \E s \in Sessions : CallSetVoiceSpeed(s)
    \/ \E s \in Sessions : CallTextToSpeech(s)
    \/ \E s \in Sessions : TtsStep(s)

Spec == Init /\ [][Next]_vars

\* Concurrent synthesis requests: the steps of the calls interleave.
NextConc ==
    \/ Tick
    \/ \E s \in Sessions : CallTextToSpeech(s)
    \/ \E s \in Sessions : TtsStep(s)

SpecConc == InitConc /\ [][NextConc]_vars

\* Transcription requests of two sessions, in any temporary directory.
InitSTT ==
    /\ live = Sessions
    /\ tempdir \in TmpDirs
    /\ InitProcessors
    /\ voice_speed = [s \in Sessions |-> InitialSpeed]
    /\ lastSel = [s \in Sessions |-> NoSel]

NextSTT ==
    \/ \E s \in Sessions : CallSpeechToText(s)
    \/ \E s \in Sessions : SttStep(s)

SpecSTT == InitSTT /\ [][NextSTT]_vars

\* The waveform renderer on every sample sequence of the bounds.
NextWave ==
    \/ CallDisplayWaveform
    \/ WaveRender
    \/ WaveReturn

SpecWave == Init /\ [][NextWave]_vars

\* One session running the script again and again, its processor calls in
\* the order main makes them.
NextMain ==
    \/ \E s \in Sessions : MainStep(s)
    \/ \E s \in Sessions : TtsRun(s)
    \/ \E s \in Sessions : SttStep(s)

SpecMain == Init /\ [][NextMain]_vars

(***************************************************************************)
(* The claims about selection and synthesis.                               *)
(***************************************************************************)
Returned(s) == pc[s] = "tts_returned"

RejectedLanguage(s) == lastSel[s].op = "set_language" /\ lastSel[s].ret = FALSE

\* The call has written an artifact (the engine's MP3 or a re-timed one).
WroteArtifact(s) ==
    \E i \in 1..Len(tts[s].ops) : tts[s].ops[i] \in {"save", "export"}

\* C2, as stated: a text_to_speech call that follows a set_language call with
\* an unsupported code returns no path and has created no artifact.
C2_UnsupportedLanguageNoFile ==
    \A s \in Sessions :
        (Returned(s) /\ RejectedLanguage(s)) =>
            (tts[s].ret = NoPath /\ ~WroteArtifact(s))

\* C2, amended: set_language with an unsupported code leaves current_language
\* at its previous, supported value; the text_to_speech call that follows hands
\* that previous language to the engine, never fails for an unsupported
\* language, and the engine is only ever given a code of the language table.
C2_RejectedCodeKeepsLanguage ==
    \A s \in Sessions :
        /\ tts[s].lang # None => tts[s].lang \in DOMAIN languages[s]
        /\ tts[s].exc # "ValueError"
        /\ (RejectedLanguage(s) /\ tts[s].lang # None) => tts[s].lang = lastSel[s].lang

\* A synthesis in French after set_language("xx") was rejected: a file is
\* written and its path returned.
C2_Witness ==
    /\ Returned(1) /\ RejectedLanguage(1) /\ lastSel[1].arg = "xx"
    /\ tts[1].lang = "fr"
    /\ tts[1].ret = tts[1].path
    /\ files[tts[1].path] = "engine"

\* C3, as stated: no two synthesis requests are given the same file path.
C3_UniquePaths == \A p \in AllPaths : requests[p] <= 1

AdjustReturned(s) ==
    pc[s] \in {"tts_finish", "tts_returned"} /\ "adjust_error" \in tts[s].reported

\* C4, as stated: when _adjust_audio_speed fails, the file holds what it held
\* when the adjustment started, and text_to_speech returns its path.
C4_FailedAdjustKeepsArtifact ==
    \A s \in Sessions :
        AdjustReturned(s) =>
            /\ tts[s].post = tts[s].pre
            /\ Returned(s) => tts[s].ret = tts[s].path

\* C5: with the tier 'normal', a text_to_speech call that gets past the save
\* has done nothing to its file but the engine's save: no decode, no export, no
\* adjustment message; and a file no other request was given holds the
\* engine's output when the path is returned.
C5_NormalSpeedIsNoOp ==
    \A s \in Sessions :
        (/\ voice_speed[s] = "normal"
         /\ pc[s] = "tts_finish" \/ (Returned(s) /\ tts[s].ret # NoPath)) =>
            /\ tts[s].ops = <<"save">>
            /\ tts[s].reported \cap {"adjust_info", "adjust_error"} = {}
            /\ requests[tts[s].path] = 1 => files[tts[s].path] = "engine"

\* A normal-speed call has returned the path of the engine's file.
C5_Witness ==
    /\ voice_speed[1] = "normal"
    /\ Returned(1) /\ tts[1].ret = tts[1].path
    /\ requests[tts[1].path] = 1
    /\ files[tts[1].path] = "engine"

SelectionRecorded(s) ==
    /\ lastSel[s].op = "set_language" =>
          /\ lastSel[s].ret = (lastSel[s].arg \in DOMAIN LanguageTable)
          /\ voice_speed[s] = lastSel[s].speed
          /\ current_language[s] =
                IF lastSel[s].ret THEN lastSel[s].arg ELSE lastSel[s].lang
    /\ lastSel[s].op = "set_voice_speed" =>
          /\ lastSel[s].ret = (lastSel[s].arg \in DOMAIN SpeedTable)
          /\ current_language[s] = lastSel[s].lang
          /\ voice_speed[s] = IF lastSel[s].ret THEN lastSel[s].arg ELSE lastSel[s].speed

\* C6: whatever the arguments of the set_language and set_voice_speed calls,
\* the current language and speed are keys of their tables, the tables are
\* those of __init__, and the last selection call returned True exactly for a
\* member, a rejected one having left both selections as they were.
C6_SelectionsValidated ==
    \A s \in Sessions :
        /\ languages[s] = LanguageTable
        /\ voice_speeds[s] = SpeedTable
        /\ current_language[s] \in DOMAIN languages[s]
        /\ voice_speed[s] \in DOMAIN voice_speeds[s]
        /\ SelectionRecorded(s)

\* set_language("xx") was rejected after French and fast had been selected.
C6_Witness ==
    /\ RejectedLanguage(1) /\ lastSel[1].arg = "xx"
    /\ current_language[1] = "fr"
    /\ voice_speed[1] = "fast"

(***************************************************************************)
(* The claims about transcription.                                         *)
(***************************************************************************)
SttReturned(s) == pc[s] = "stt_returned"

\* C1, as stated: when speech_to_text returns, on whatever path, none of the
\* temporary files the call created exists any more.
C1_NoTempFileLeft ==
    \A s \in Sessions :
        SttReturned(s) => stt[s].created \cap DOMAIN tmpfiles = {}

SttFailed(s) == SttReturned(s) /\ stt[s].exc # None

\* The failure modes of the error taxonomy.
FailureMode(s) ==
    CASE stt[s].exc = "UnknownValueError" -> "UnintelligibleAudio"
      [] stt[s].exc = "RequestError" -> "ServiceUnavailable"
      [] stt[s].exc \in {"CouldntDecodeError", "ValueError"} -> "UnsupportedFormat"
      [] stt[s].exc = "OSError" -> "IOFailure"

\* What a failed call gives its caller: the value returned and the error report.
Outcome(s) == [ret |-> stt[s].ret, report |-> stt[s].handler]

\* C7, as stated: two failed calls with different failure modes give their
\* callers different outcomes.
C7_FailureModesDistinct ==
    \A s1, s2 \in Sessions :
        (SttFailed(s1) /\ SttFailed(s2) /\ FailureMode(s1) # FailureMode(s2)) =>
            Outcome(s1) # Outcome(s2)

GenericModes == {"UnsupportedFormat", "IOFailure"}

\* C7, amended: every failed call returns None; unintelligible audio and a
\* recognition request error each have an error report of their own, and an
\* unsupported format and a temporary-file I/O failure share the generic one,
\* so two failures are told apart by their reports exactly when their modes
\* differ and are not both of these two.
C7_ThreeReports ==
    /\ \A s \in Sessions :
          SttFailed(s) =>
              /\ stt[s].ret = None
              /\ stt[s].handler = "unknown_value" <=> FailureMode(s) = "UnintelligibleAudio"
              /\ stt[s].handler = "request_error" <=> FailureMode(s) = "ServiceUnavailable"
              /\ stt[s].handler = "generic" <=> FailureMode(s) \in GenericModes
    /\ \A s1, s2 \in Sessions :
          (SttFailed(s1) /\ SttFailed(s2)) =>
              (Outcome(s1) = Outcome(s2) <=>
                  \/ FailureMode(s1) = FailureMode(s2)
                  \/ {FailureMode(s1), FailureMode(s2)} \subseteq GenericModes)

\* An undecodable MP3 in one session and a failed write of the temporary
\* file in the other: both calls have returned None with the generic report.
C7_Witness ==
    /\ SttFailed(1) /\ FailureMode(1) = "UnsupportedFormat"
    /\ SttFailed(2) /\ FailureMode(2) = "IOFailure"
    /\ Outcome(1) = Outcome(2)
    /\ Outcome(1) = [ret |-> None, report |-> "generic"]

(***************************************************************************)
(* The claims about the waveform.                                          *)
(***************************************************************************)
Rendered == wave.state = "done" /\ Len(wave.samples) >= 1

\* C8: for a decoded sequence of at least one sample, display_waveform plots a
\* chart (nothing is raised), of at most WaveCap amplitudes, against a time
\* axis of exactly as many points.
C8_PointCounts ==
    Rendered =>
        /\ wave.error = FALSE
        /\ Len(wave.y) <= WaveCap
        /\ Len(wave.x) = Len(wave.y)
        /\ Len(wave.y) >= 1

\* A sequence longer than twice the cap was downsampled to exactly the cap.
C8_Witness ==
    /\ Rendered
    /\ Len(wave.samples) > 2 * WaveCap
    /\ Len(wave.y) = WaveCap
    /\ Len(wave.x) = WaveCap

Silent == \A i \in 1..Len(wave.samples) : wave.samples[i] = 0

\* C9, as stated: a silent artifact is plotted without division and without
\* error as a flat line of zeros; with a non-zero sample, every plotted
\* amplitude lies in [-1, 1].
C9_FlatOrNormalized ==
    Rendered =>
        /\ wave.error = FALSE
        /\ Silent =>
              /\ wave.normalized = FALSE
              /\ \A i \in 1..Len(wave.y) : wave.y[i].num = 0
        /\ ~Silent =>
              \A i \in 1..Len(wave.y) :
                  /\ -wave.y[i].den <= wave.y[i].num
                  /\ wave.y[i].num <= wave.y[i].den

(***************************************************************************)
(* The claim about main.                                                   *)
(***************************************************************************)
\* C10: in every run of main, a synthesis is made in the language selected in
\* the Text-to-Speech panel and a transcription in the language selected in
\* the Speech-to-Text panel, whatever the two selections are.
C10_PanelLanguageUsed ==
    \A s \in Sessions :
        /\ tts[s].lang # None => tts[s].lang = ui[s].tts_language
        /\ stt[s].lang # None => stt[s].lang = ui[s].stt_language

\* Transcribe was pressed with English selected in the first panel and French
\* in the second, and the recognizer was given French.
C10_Witness ==
    /\ ui[1].tts_language = "en" /\ ui[1].stt_language = "fr"
    /\ pc[1] = "stt_returned"
    /\ stt[1].lang = "fr"

=============================================================================
